---- MODULE Spec2Model ----
(***************************************************************************)
(* Bluetooth codec test bench: the codec catalogue and the selection it    *)
(* resolves, the patched capability check, and the GUI session             *)
(* (BenchWorker, AudioPlayer, the bitrate sampler and the event queue).    *)
(***************************************************************************)
EXTENDS Integers, Sequences, FiniteSets, TLC

(***************************************************************************)
(* Bounds of the model.                                                    *)
(***************************************************************************)
MaxReq == 2          \* longest requested key list handed to resolve
MaxTail == 1         \* values tried for the parameter tail of a proposal
MaxSessions == 1     \* sessions the application starts (Spec, SpecSelect)
LifeOpens == 1       \* endpoint-open notifications per session (Spec)
LifePackets == 1     \* media packets per session (Spec)
MaxOpens == 2        \* endpoint-open notifications (SpecRelay, SpecOpen, SpecStream)
MaxRuns == 2         \* sessions the application starts (SpecLife)
MaxCliRuns == 2      \* sessions run from the menu of codec_tester.py (SpecCli)
MaxParseLen == 8     \* longest payload handed to parse_codec_info (SpecParse)
MaxPackets == 2      \* media packets (SpecRelay, SpecStream)

(***************************************************************************)
(* The codec catalogue.                                                    *)
(***************************************************************************)
QUALCOMM == <<208, 0, 0, 0>>
SONY == <<45, 1, 0, 0>>
SAVITECH == <<58, 5, 0, 0>>

\* media_codec_type of a vendor codec
VENDOR_TYPE == 255

CatalogueKeys ==
  << "SBC", "AAC", "APTX", "APTX_HD", "APTX_ADAPTIVE", "APTX_TWS_PLUS",
     "LDAC", "LHDC_V2", "LHDC_V3", "LHDC_V4", "LHDC_V5" >>

Range(s) == { s[i] : i \in DOMAIN s }

KeySet == Range(CatalogueKeys)

\* CODECS[key] of the GUI: display name, media codec type, capability bytes
CODECS ==
  [ SBC           |-> [name |-> "SBC", mct |-> 0, info |-> <<255, 255, 2, 53>>],
    AAC           |-> [name |-> "AAC", mct |-> 2, info |-> <<240, 1, 4, 0, 255, 255>>],
    APTX          |-> [name |-> "aptX", mct |-> 255, info |-> QUALCOMM \o <<1, 0, 255>>],
    APTX_HD       |-> [name |-> "aptX-HD", mct |-> 255,
                       info |-> QUALCOMM \o <<36, 0, 255, 0, 0, 0, 0>>],
    APTX_ADAPTIVE |-> [name |-> "aptX-Adaptive", mct |-> 255,
                       info |-> QUALCOMM \o <<173, 0>> \o <<0, 0, 0, 0, 0, 0, 0, 0, 0, 0>>],
    APTX_TWS_PLUS |-> [name |-> "aptX TWS+", mct |-> 255, info |-> QUALCOMM \o <<5, 0, 255>>],
    LDAC          |-> [name |-> "LDAC", mct |-> 255, info |-> SONY \o <<170, 0, 60, 7>>],
    LHDC_V2       |-> [name |-> "LHDC V2", mct |-> 255, info |-> SAVITECH \o <<50, 76, 38, 240, 0>>],
    LHDC_V3       |-> [name |-> "LHDC V3", mct |-> 255, info |-> SAVITECH \o <<72, 76, 62, 240, 0>>],
    LHDC_V4       |-> [name |-> "LHDC V4", mct |-> 255, info |-> SAVITECH \o <<52, 76, 78, 240, 0>>],
    LHDC_V5       |-> [name |-> "LHDC V5", mct |-> 255, info |-> SAVITECH \o <<53, 76, 95, 240, 0>>] ]

\* the capability bytes of codec_tester.py, which differ from the GUI's for
\* aptX-Adaptive and LHDC V3
CLI_INFO ==
  [ k \in KeySet |->
      IF k = "APTX_ADAPTIVE" THEN QUALCOMM \o <<173, 0>> \o <<0, 0, 0, 1, 0, 0, 0, 0, 0, 0>>
      ELSE IF k = "LHDC_V3" THEN SAVITECH \o <<51, 76, 62, 240, 0>>
      ELSE CODECS[k].info ]

MANDATORY == << "SBC", "AAC" >>

PRESETS ==
  [ ALL_LHDC |-> << "LHDC_V2", "LHDC_V3", "LHDC_V4", "LHDC_V5" >>,
    ALL_APTX |-> << "APTX", "APTX_HD", "APTX_ADAPTIVE", "APTX_TWS_PLUS" >>,
    STANDARD |-> << "SBC", "AAC" >>,
    ALL      |-> CatalogueKeys ]

\* the key lists of MENU_MAP: entries 1..11 are the single keys in catalogue
\* order, 12..15 the presets
MENU_MAP ==
  [ i \in 1..15 |->
      IF i <= 11 THEN << CatalogueKeys[i] >>
      ELSE IF i = 12 THEN PRESETS.ALL_LHDC
      ELSE IF i = 13 THEN PRESETS.ALL_APTX
      ELSE IF i = 14 THEN PRESETS.STANDARD
      ELSE PRESETS.ALL ]

(***************************************************************************)
(* resolve / App._get_keys: the requested keys, then the mandatory keys    *)
(* that are missing, in the order of MANDATORY.                            *)
(***************************************************************************)
RECURSIVE AppendAlways(_, _)
AppendAlways(result, ms) ==
  IF ms = << >> THEN result
  ELSE AppendAlways(Append(result, Head(ms)), Tail(ms))

RECURSIVE AppendMissing(_, _)
AppendMissing(result, ms) ==
  IF ms = << >> THEN result
  ELSE AppendMissing(
         IF Head(ms) \notin Range(result) THEN Append(result, Head(ms)) ELSE result,
         Tail(ms))

resolve(keys) == AppendMissing(keys, MANDATORY)

\* [k for k, v in self._codec_vars.items() if v.get()]: the checked keys in
\* the order the checkboxes were built, which is the catalogue's
RECURSIVE CheckedInOrder(_, _)
CheckedInOrder(order, checked) ==
  IF order = << >> THEN << >>
  ELSE (IF Head(order) \in checked THEN << Head(order) >> ELSE << >>)
         \o CheckedInOrder(Tail(order), checked)

get_keys(checked) == AppendMissing(CheckedInOrder(CatalogueKeys, checked), MANDATORY)

(***************************************************************************)
(* The capability check that replaces the stack's.                         *)
(*   a proposal: [has_vendor, vendor_id, codec_id, tail]                    *)
(***************************************************************************)
\* little-endian value of a byte sequence
RECURSIVE LE(_)
LE(bs) == IF bs = << >> THEN 0 ELSE Head(bs) + 256 * LE(Tail(bs))

\* VendorMediaCodecInformation of a capability payload (stack's decoding):
\* 4 bytes of vendor id, 2 bytes of codec id, then the value
VendorInfo(info) ==
  [ vendor_id |-> LE(SubSeq(info, 1, 4)),
    codec_id  |-> LE(SubSeq(info, 5, 6)),
    tail      |-> SubSeq(info, 7, Len(info)) ]

\* _check of codec_tester.py: TRUE when it returns, FALSE when it raises
CheckIgnoringCodecId(self, config) ==
  IF ~config.has_vendor THEN TRUE
  ELSE config.vendor_id = self.vendor_id

_check(self, config) ==
  IF ~config.has_vendor THEN TRUE
  ELSE IF config.vendor_id # self.vendor_id THEN FALSE
  ELSE IF config.codec_id # self.codec_id THEN FALSE
  ELSE TRUE

\* an override that answers for every class of codec
PermissiveForAll(media_codec_type, orig) == TRUE

\* _permissive_check of codec_tester_gui.py: orig is the verdict of the
\* stack's own check_configuration for the same call
_permissive_check(media_codec_type, orig) ==
  IF media_codec_type = VENDOR_TYPE THEN TRUE ELSE orig


(***************************************************************************)
(* parse_codec_info: the fields of a codec payload.  A payload is a         *)
(* sequence of bytes, b[i] of the code being b[i + 1] here; the result is   *)
(* [r |-> the dict returned, a function of the field names it holds,        *)
(*  caught |-> an exception was raised inside the try and swallowed].       *)
(***************************************************************************)
NoFields == [f \in {} |-> 0]

Put(r, field, value) == (field :> value) @@ r

\* byte & mask # 0, for a mask of one bit
Bit(byte, mask) == (byte \div mask) % 2 = 1

\* for mask, hz in table: if byte & mask: r['sample_rate'] = hz; break
RECURSIVE FirstRate(_, _, _)
FirstRate(r, byte, table) ==
  IF table = << >> THEN r
  ELSE IF Bit(byte, Head(table)[1]) THEN Put(r, "sample_rate", Head(table)[2])
  ELSE FirstRate(r, byte, Tail(table))

SBC_RATES == << << 128, 16000 >>, << 64, 32000 >>, << 32, 44100 >>, << 16, 48000 >> >>
AAC_RATES ==
  << << 2048, 8000 >>, << 1024, 11025 >>, << 512, 12000 >>, << 256, 16000 >>,
     << 128, 22050 >>, << 64, 24000 >>, << 32, 32000 >>, << 16, 44100 >>,
     << 8, 48000 >>, << 2, 88200 >>, << 1, 96000 >> >>
LDAC_RATES == << << 32, 44100 >>, << 16, 48000 >>, << 4, 88200 >>, << 2, 96000 >> >>
LHDC_RATES == << << 8, 192000 >>, << 4, 96000 >>, << 2, 48000 >>, << 1, 44100 >> >>
APTX_RATES == << << 128, 44100 >>, << 64, 48000 >> >>

LhdcKeys == {"LHDC_V2", "LHDC_V3", "LHDC_V4", "LHDC_V5"}
AptxKeys == {"APTX", "APTX_HD", "APTX_ADAPTIVE", "APTX_TWS_PLUS"}
\* "HD" in codec_key, for the keys that start with APTX
HasHD(k) == k = "APTX_HD"

\* a parser that takes LDAC payloads one byte shorter than it reads
MinLenLdacShort(k) ==
  IF k = "SBC" THEN 4 ELSE IF k = "AAC" THEN 2 ELSE 7

\* the length each branch asks of the payload
MinLen(k) ==
  IF k = "SBC" THEN 4 ELSE IF k = "AAC" THEN 2 ELSE IF k = "LDAC" THEN 8 ELSE 7

\* the branches: each reads b[i] (an IndexError when the payload is too
\* short for it, which the except clause swallows: r is returned as it is)
parse_codec_info(k, b) ==
  LET n == Len(b)
      done(r) == [r |-> r, caught |-> FALSE]
      caught(r) == [r |-> r, caught |-> TRUE]
  IN  IF n < MinLen(k) THEN done(NoFields)
      ELSE IF k = "SBC" THEN
        IF n < 1 THEN caught(NoFields)
        ELSE done(Put(Put(FirstRate(NoFields, b[1], SBC_RATES),
                          "bit_depth", 16), "max_kbps", 320))
      ELSE IF k = "AAC" THEN
        IF n < 2 THEN caught(NoFields)
        ELSE done(Put(Put(FirstRate(NoFields, (b[1] % 16) * 256 + b[2], AAC_RATES),
                          "bit_depth", 16), "max_kbps", 320))
      ELSE IF k = "LDAC" THEN
        IF n < 7 THEN caught(NoFields)
        ELSE LET r == Put(FirstRate(NoFields, b[7], LDAC_RATES), "bit_depth", 24)
             IN  IF n < 8 THEN caught(r)
                 ELSE LET q == b[8] % 8
                      IN  done(Put(r, "max_kbps",
                                   IF q = 1 THEN 660 ELSE IF q = 2 THEN 330 ELSE 990))
      ELSE IF k \in LhdcKeys THEN
        IF n < 7 THEN caught(NoFields)
        ELSE done(Put(Put(FirstRate(NoFields, b[7], LHDC_RATES),
                          "bit_depth", 24), "max_kbps", 900))
      ELSE IF k \in AptxKeys THEN
        IF n < 7 THEN caught(NoFields)
        ELSE done(Put(Put(FirstRate(NoFields, b[7], APTX_RATES),
                          "bit_depth", IF HasHD(k) THEN 24 ELSE 16),
                      "max_kbps", IF HasHD(k) THEN 576 ELSE 352))
      ELSE done(NoFields)

(***************************************************************************)
(* State.                                                                  *)
(***************************************************************************)
VARIABLES
  pf,            \* the last call followed: [fn, in, out]
  running,       \* App._running (the start button is disabled while it holds)
  nsess,         \* sessions started so far
  reset,         \* _do_reset threads of the App that have not finished
  pc,            \* where the worker thread of the current BenchWorker is
  loop,          \* BenchWorker._loop: "none", "open", "closed"
  stop_event,    \* BenchWorker._stop_event: "none", "clear", "set"
  stop_cb,       \* a stop_event.set callback is queued in the loop
  raised,        \* an exception is propagating out of _run
  transport,     \* "unopened", "open", "closed"
  codec_keys,    \* the keys the session was started with
  audio_enabled, \* BenchWorker._audio_enabled
  fired,         \* fired['v'] of on_avdtp
  endpoints,     \* keys of the endpoints add_sink returned, in order
  ep_open,       \* keys of the endpoints that are open
  rtp_handlers,  \* per key, the _on_rtp handlers wired on its endpoint
  audio,         \* the AudioPlayer of the worker
  bytes_recv,    \* BenchWorker.bytes_recv
  bt_pc,         \* bitrate_loop: "none", "sleeping", "finished", "cancelled"
  prev,          \* prev of bitrate_loop
  ev_q,          \* App._ev_q: events put and not yet handled
  emitted,       \* every event the current session has put, in order
  handled,       \* the events App._handle was given since the last _start
  cli,           \* codec_tester.py: the state of its main()
  hist,          \* what has happened in the current session (counters)
  lim            \* how many opens, media packets and sessions are explored

appVars == << running, nsess, reset >>
threadVars == << pc, loop, stop_event, stop_cb, raised, transport >>
sessVars == << codec_keys, audio_enabled >>
connVars == << fired, endpoints, ep_open, rtp_handlers >>
relayVars == << audio, bytes_recv >>
samplerVars == << bt_pc, prev >>
eventVars == << ev_q, emitted, handled >>
sessionVars ==
  << appVars, threadVars, sessVars, connVars, relayVars, samplerVars, eventVars, hist >>
vars == << pf, sessionVars, cli, lim >>

(***************************************************************************)
(* Events of the queue: {'type': ..., **kw}.  key is the codec key the     *)
(* event is about, text what a LOG says, num the kbps of a BITRATE event   *)
(* in thousandths (kbps = num / KBPS_DIV), info and cfg the parsed fields   *)
(* and the configuration bytes of a STREAM_OPENED event.                   *)
(***************************************************************************)
KBPS_DIV == 1000
BITS_PER_BYTE == 8

Ev(type, key, text, num) ==
  [type |-> type, key |-> key, text |-> text, num |-> num,
   info |-> NoFields, cfg |-> << >>]
Log(key, text) == Ev("LOG", key, text, 0)

Count(s, type) == Cardinality({ i \in DOMAIN s : s[i].type = type })

\* a queue that hands out the newest event first
EmitLifo(evs) == /\ ev_q' = evs \o ev_q
                 /\ emitted' = emitted \o evs
                 /\ handled' = handled

\* BenchWorker._emit: put on the queue (emitted is the session's record of it)
Emit(evs) == /\ ev_q' = ev_q \o evs
             /\ emitted' = emitted \o evs
             /\ handled' = handled

(***************************************************************************)
(* AudioPlayer.                                                            *)
(*   backend: ffplay was found; proc: "none", "running", "exited";          *)
(*   dump_file: the backup file handle is held; played: bytes written to   *)
(*   ffplay; dump: bytes in the backup file since the player opened it;    *)
(*   unreleased: ffplay processes and backup file handles the player has   *)
(*   started or opened and dropped without terminating or closing them.    *)
(***************************************************************************)
NewAudio(has_ffplay) ==
  [ backend |-> has_ffplay, proc |-> "none", active |-> FALSE,
    dump_file |-> FALSE, played |-> << >>, dump |-> << >>, unreleased |-> 0 ]

\* an assignment to self._proc or self.dump_file drops the object the
\* attribute held
Dropped(held) == IF held THEN 1 ELSE 0

\* AudioPlayer.start: [a |-> the player after it, logs |-> what it logged]
AudioStart(a, codec_key, popen_ok, open_ok) ==
  IF ~a.backend
    THEN [a |-> a, logs |-> << Log("", "no audio backend") >>]
  ELSE IF codec_key # "SBC"
    THEN [a |-> a, logs |-> << Log(codec_key, "live playback only works for SBC") >>]
  ELSE IF ~popen_ok
    THEN [a |-> a, logs |-> << Log("", "audio failed to start") >>]
  ELSE IF ~open_ok
    THEN [a |-> [a EXCEPT !.proc = "running", !.active = TRUE,
                          !.unreleased = @ + Dropped(a.proc # "none")],
          logs |-> << Log("", "audio failed to start") >>]
  ELSE [a |-> [a EXCEPT !.proc = "running", !.active = TRUE,
                        !.dump_file = TRUE, !.dump = << >>,
                        !.unreleased = @ + Dropped(a.proc # "none")
                                         + Dropped(a.dump_file)],
        logs |-> << Log("", "audio playing"), Log("", "saving backup") >>]

\* AudioPlayer.write
AudioWrite(a, data, pipe_ok, disk_ok) ==
  IF a.active /\ a.proc # "none" /\ a.proc = "running"
    THEN IF ~pipe_ok
           THEN [a |-> [a EXCEPT !.active = FALSE],
                 logs |-> << Log("", "audio pipe error") >>]
         ELSE IF a.dump_file
           THEN IF ~disk_ok
                  THEN [a |-> [a EXCEPT !.played = @ \o data, !.active = FALSE],
                        logs |-> << Log("", "audio pipe error") >>]
                  ELSE [a |-> [a EXCEPT !.played = @ \o data, !.dump = @ \o data],
                        logs |-> << >>]
         ELSE [a |-> [a EXCEPT !.played = @ \o data], logs |-> << >>]
    ELSE [a |-> a, logs |-> << >>]

\* a stop that forgets the backup file
AudioStopKeepsFile(a) == [a EXCEPT !.active = FALSE, !.proc = "none"]

\* AudioPlayer.stop
AudioStop(a) ==
  [a EXCEPT !.active = FALSE, !.proc = "none", !.dump_file = FALSE]


(***************************************************************************)
(* Inputs.                                                                 *)
(***************************************************************************)
\* the checkbox selections a session is started with: the checkboxes as
\* App builds them (the mandatory keys checked)
Selections == { {"SBC", "AAC"} }


\* payloads of the media packets
Payloads == { << 9 >>, << 9, 7 >> }

\* codec_tester.py before main() runs
CliStart ==
  [ pc |-> "start", keys |-> << >>, direct |-> FALSE, fired |-> FALSE,
    endpoints |-> << >>, step |-> 0, nruns |-> 0, why |-> "" ]

(***************************************************************************)
(* Initial state: the application after App.__init__, no worker yet.       *)
(***************************************************************************)
NoHist ==
  [ n_conn |-> 0, n_reg |-> 0, n_stop |-> 0, n_opens |-> 0, n_pkts |-> 0,
    n_teardown |-> 0, n_tclose |-> 0, reg_failed |-> {},
    delivered |-> 0, playback_lost |-> FALSE, dump_at_loss |-> << >>,
    due |-> << >>, negotiated |-> << >>, n_err |-> 0 ]

AppInit ==
  /\ pf = [fn |-> "none", in |-> << >>, out |-> << >>]
  /\ running = FALSE
  /\ nsess = 0
  /\ reset = 0
  /\ pc = "none"
  /\ loop = "none"
  /\ stop_event = "none"
  /\ stop_cb = FALSE
  /\ raised = FALSE
  /\ transport = "unopened"
  /\ codec_keys = << >>
  /\ audio_enabled = FALSE
  /\ fired = FALSE
  /\ endpoints = << >>
  /\ ep_open = {}
  /\ rtp_handlers = [k \in KeySet |-> 0]
  /\ audio = NewAudio(FALSE)
  /\ bytes_recv = 0
  /\ bt_pc = "none"
  /\ prev = 0
  /\ ev_q = << >>
  /\ emitted = << >>
  /\ handled = << >>
  /\ cli = CliStart
  /\ hist = NoHist

Init ==
  /\ AppInit
  /\ lim = [opens |-> LifeOpens, pkts |-> LifePackets, sess |-> MaxSessions]

(***************************************************************************)
(* The application (GUI thread).                                           *)
(***************************************************************************)
\* a start button that is never disabled
StartAlwaysEnabled == TRUE

\* _set_btns: the start button is enabled when no session is running
StartEnabled == ~running

\* App._start: a new BenchWorker, and BenchWorker.start spawns its thread
AppStart(checked, audio_on, has_ffplay) ==
  /\ StartEnabled
  /\ audio_on \/ ~has_ffplay   \* without playback the backend is never used
  /\ nsess < lim.sess
  /\ running' = TRUE
  /\ nsess' = nsess + 1
  /\ codec_keys' = get_keys(checked)
  /\ audio_enabled' = audio_on
  /\ pc' = "spawned"
  /\ loop' = "none"
  /\ stop_event' = "none"
  /\ stop_cb' = FALSE
  /\ raised' = FALSE
  /\ transport' = "unopened"
  /\ fired' = FALSE
  /\ endpoints' = << >>
  /\ ep_open' = {}
  /\ rtp_handlers' = [k \in KeySet |-> 0]
  /\ audio' = NewAudio(has_ffplay)
  /\ bytes_recv' = 0
  /\ bt_pc' = "none"
  /\ prev' = 0
  /\ emitted' = << >>
  /\ handled' = << >>
  /\ hist' = NoHist
  /\ UNCHANGED << pf, cli, lim, ev_q, reset >>

\* a count of calls that is not followed beyond the second
UpTo2(n) == IF n > 2 THEN 2 ELSE n

\* the condition of BenchWorker.stop
StopTakesEffect == loop = "open" /\ stop_event # "none"

\* BenchWorker.stop (App._stop, the stop button being enabled while running)
AppStop ==
  /\ running
  /\ pc # "none"
  /\ stop_cb' = (stop_cb \/ StopTakesEffect)
  /\ hist' = [hist EXCEPT !.n_stop = UpTo2(@ + 1)]
  /\ UNCHANGED << pf, cli, lim, appVars, pc, loop, stop_event, raised, transport,
                  sessVars, connVars, relayVars, samplerVars, eventVars >>

\* App._poll: handle every queued event, in the order of the queue; DONE
\* re-enables the start button and starts a _do_reset thread.  Handling any
\* other event changes widgets only, which are not part of the state, so
\* the polls followed are those that find a DONE.
AppPoll ==
  /\ Count(ev_q, "DONE") > 0
  /\ ev_q' = << >>
  /\ handled' = handled \o ev_q
  /\ running' = IF Count(ev_q, "DONE") > 0 THEN FALSE ELSE running
  /\ reset' = reset + Count(ev_q, "DONE")
  /\ UNCHANGED << pf, cli, lim, nsess, threadVars, sessVars, connVars, relayVars,
                  samplerVars, emitted, hist >>

\* a _do_reset thread comes to its end: reset_hci returned and the thread
\* puts its LOG, or a subprocess.run of reset_hci raised (the command is
\* missing, or timed out) and the thread dies with it
ResetFinish(ok) ==
  /\ reset > 0
  /\ reset' = reset - 1
  /\ ev_q' = IF ok THEN Append(ev_q, Log("", "HCI ready")) ELSE ev_q
  /\ UNCHANGED << pf, cli, lim, running, nsess, threadVars, sessVars, connVars,
                  relayVars, samplerVars, emitted, handled, hist >>

(***************************************************************************)
(* The worker thread: _thread_main and _run.                               *)
(***************************************************************************)
\* the event loop is running callbacks (the session coroutine is suspended)
LoopRunning == pc \in {"opening", "powering", "waiting", "closing"}

\* _thread_main: new_event_loop
ThreadBegin ==
  /\ pc = "spawned"
  /\ loop' = "open"
  /\ pc' = "loop"
  /\ UNCHANGED << pf, cli, lim, appVars, stop_event, stop_cb, raised, transport,
                  sessVars, connVars, relayVars, samplerVars, eventVars, hist >>

\* _run up to its first suspension: the stop event, then await open_transport
RunBegin ==
  /\ pc = "loop"
  /\ stop_event' = "clear"
  /\ pc' = "opening"
  /\ UNCHANGED << pf, cli, lim, appVars, loop, stop_cb, raised, transport,
                  sessVars, connVars, relayVars, samplerVars, eventVars, hist >>

\* the loop runs the callback stop() queued: stop_event.set()
StopCallback ==
  /\ stop_cb
  /\ LoopRunning
  /\ stop_event' = "set"
  /\ stop_cb' = FALSE
  /\ UNCHANGED << pf, cli, lim, appVars, pc, loop, raised, transport,
                  sessVars, connVars, relayVars, samplerVars, eventVars, hist >>

\* open_transport returns; the device and the listener are set up and _run
\* awaits power_on / set_discoverable / set_connectable
OpenTransport(ok) ==
  /\ pc = "opening"
  /\ IF ok
       THEN /\ transport' = "open"
            /\ pc' = "powering"
            /\ raised' = raised
       ELSE /\ transport' = transport
            /\ pc' = "raised"
            /\ raised' = TRUE
  /\ UNCHANGED << pf, cli, lim, appVars, loop, stop_event, stop_cb,
                  sessVars, connVars, relayVars, samplerVars, eventVars, hist >>

\* the task bitrate_loop after bitrate_task.cancel()
TaskAfterCancel == "cancelled"

\* power_on and the two set_ calls return: DISCOVERABLE, the sampler task,
\* and stop_event.wait(), which returns at once when the event is set
PowerOn(ok) ==
  /\ pc = "powering"
  /\ IF ~ok
       THEN /\ raised' = TRUE
            /\ pc' = "closing"
            /\ UNCHANGED << bt_pc, eventVars >>
       ELSE /\ raised' = raised
            /\ Emit(<< Ev("DISCOVERABLE", "", "", 0) >>)
            /\ IF stop_event = "set"
                 THEN pc' = "closing" /\ bt_pc' = TaskAfterCancel
                 ELSE pc' = "waiting" /\ bt_pc' = "sleeping"
  /\ UNCHANGED << pf, cli, lim, appVars, loop, stop_event, stop_cb, transport,
                  sessVars, connVars, relayVars, prev, hist >>

\* stop_event.wait() returns: bitrate_task.cancel(), and the async with
\* block is left
RunResume ==
  /\ pc = "waiting"
  /\ stop_event = "set"
  /\ bt_pc' = TaskAfterCancel
  /\ pc' = "closing"
  /\ UNCHANGED << pf, cli, lim, appVars, loop, stop_event, stop_cb, raised, transport,
                  sessVars, connVars, relayVars, prev, eventVars, hist >>

\* leaving async with: the transport is closed, _run returns or raises
TransportClose ==
  /\ pc = "closing"
  /\ transport' = "closed"
  /\ pc' = IF raised THEN "raised" ELSE "returned"
  /\ hist' = [hist EXCEPT !.n_tclose = @ + 1]
  /\ UNCHANGED << pf, cli, lim, appVars, loop, stop_event, stop_cb, raised,
                  sessVars, connVars, relayVars, samplerVars, eventVars >>

\* _thread_main after run_until_complete: the except clause, then finally
ThreadMainExit ==
  /\ pc \in {"returned", "raised"}
  /\ loop' = "closed"
  /\ audio' = AudioStop(audio)
  /\ Emit((IF pc = "raised" THEN << Log("", "[ERROR]") >> ELSE << >>)
            \o << Ev("DONE", "", "", 0) >>)
  /\ pc' = "done"
  /\ stop_cb' = FALSE
  /\ hist' = [hist EXCEPT !.n_teardown = @ + 1, !.playback_lost = FALSE]
  /\ UNCHANGED << pf, cli, lim, appVars, stop_event, raised, transport,
                  sessVars, connVars, bytes_recv, samplerVars >>


(***************************************************************************)
(* Callbacks the stack runs in the loop while _run is suspended.           *)
(***************************************************************************)
\* the guard of on_avdtp (and of on_connection in codec_tester.py)
NeverFired == FALSE

AlreadyFired == fired

\* the keys whose add_sink succeeded when the stack fails those of `fails`:
\* registration that gives up at the first failure
RECURSIVE RegisterUntilFailure(_, _)
RegisterUntilFailure(keys, fails) ==
  IF keys = << >> \/ Head(keys) \in fails THEN << >>
  ELSE << Head(keys) >> \o RegisterUntilFailure(Tail(keys), fails)

\* the loop over codec_keys with its try/except around each key
RECURSIVE RegisterAll(_, _)
RegisterAll(keys, fails) ==
  IF keys = << >> THEN << >>
  ELSE (IF Head(keys) \in fails THEN << >> ELSE << Head(keys) >>)
         \o RegisterAll(Tail(keys), fails)

\* what that loop logs, key by key
RECURSIVE RegisterLogs(_, _)
RegisterLogs(keys, fails) ==
  IF keys = << >> THEN << >>
  ELSE << Log(Head(keys), IF Head(keys) \in fails THEN "skipped" ELSE "[+]") >>
         \o RegisterLogs(Tail(keys), fails)

\* on_avdtp: a connection notification of the listener.  A peer connects
\* to a device that is powered on and connectable, and the notification
\* comes when its signalling channel is set up: while _run waits
OnAvdtp(fails) ==
  /\ pc = "waiting"
  /\ IF AlreadyFired
       THEN /\ fails = {}
            /\ hist' = [hist EXCEPT !.n_conn = UpTo2(@ + 1)]
            /\ UNCHANGED << fired, endpoints, eventVars >>
       ELSE /\ fired' = TRUE
            /\ endpoints' = endpoints \o RegisterAll(codec_keys, fails)
            /\ Emit(<< Log("", "[AVDTP] Connected") >>
                      \o RegisterLogs(codec_keys, fails)
                      \o << Ev("CONNECTED", "", "", 0) >>)
            /\ hist' = [hist EXCEPT !.n_conn = UpTo2(@ + 1), !.n_reg = @ + 1,
                                    !.reg_failed = fails]
  /\ UNCHANGED << pf, cli, lim, appVars, threadVars, sessVars, ep_open, rtp_handlers,
                  relayVars, samplerVars >>

\* cfg_bytes of _on_open: `exposed` is what the stack's endpoint.configuration
\* is when the peer has set the configuration `neg`: "none" (None or empty),
\* "no_info" (an object without media_codec_information, or with an empty
\* one), "info" (an object whose media_codec_information gives the bytes)
ConfigBytes(neg, exposed) == IF exposed = "info" THEN neg ELSE << >>

\* the STREAM_OPENED event of _on_open
StreamOpened(k, cfg_bytes) ==
  [Ev("STREAM_OPENED", k, "", 0) EXCEPT !.info = parse_codec_info(k, cfg_bytes).r,
                                        !.cfg = cfg_bytes]

\* _on_open of the endpoint of key k, the peer having configured it with
\* the codec information bytes neg
EndpointOpen(k, neg, exposed, popen_ok, open_ok) ==
  /\ pc = "waiting"
  /\ k \in Range(endpoints)
  /\ k \notin ep_open
  /\ hist.n_opens < lim.opens
  /\ ep_open' = ep_open \cup {k}
  /\ LET r == AudioStart(audio, k, popen_ok, open_ok)
     IN  IF audio_enabled
           THEN /\ audio' = r.a
                /\ Emit(<< StreamOpened(k, ConfigBytes(neg, exposed)) >> \o r.logs)
                /\ rtp_handlers' = [rtp_handlers EXCEPT ![k] = @ + 1]
           ELSE /\ Emit(<< StreamOpened(k, ConfigBytes(neg, exposed)) >>)
                /\ UNCHANGED << audio, rtp_handlers >>
  /\ hist' = [hist EXCEPT
       !.n_opens = @ + 1,
       !.negotiated = Append(@, neg),
       !.playback_lost =
          IF audio_enabled /\ audio.backend /\ k = "SBC" /\ popen_ok THEN FALSE ELSE @]
  /\ UNCHANGED << pf, cli, lim, appVars, threadVars, sessVars, fired, endpoints,
                  bytes_recv, samplerVars >>

\* _on_close of the endpoint of key k
EndpointClose(k) ==
  /\ pc = "waiting"
  /\ k \in ep_open
  /\ ep_open' = ep_open \ {k}
  /\ Emit(<< Ev("STREAM_CLOSED", k, "", 0) >>)
  /\ audio' = AudioStop(audio)
  /\ hist' = [hist EXCEPT !.playback_lost = FALSE]
  /\ UNCHANGED << pf, cli, lim, appVars, threadVars, sessVars, fired, endpoints,
                  rtp_handlers, bytes_recv, samplerVars >>

\* a handler that forwards the packets of every codec
OnRtpAnyCodec(st, k, payload, pipe_ok, disk_ok) ==
  LET w == IF Len(payload) > 1
             THEN AudioWrite(st.a, Tail(payload), pipe_ok, disk_ok)
             ELSE [a |-> st.a, logs |-> << >>]
  IN  [a |-> w.a, bytes |-> st.bytes + Len(payload), logs |-> st.logs \o w.logs]

\* one _on_rtp handler of the endpoint of key k on a packet:
\* st = [a |-> the player, bytes |-> bytes_recv, logs |-> logged so far]
OnRtp(st, k, payload, pipe_ok, disk_ok) ==
  LET w == IF k = "SBC" /\ Len(payload) > 1
             THEN AudioWrite(st.a, Tail(payload), pipe_ok, disk_ok)
             ELSE [a |-> st.a, logs |-> << >>]
  IN  [a |-> w.a, bytes |-> st.bytes + Len(payload), logs |-> st.logs \o w.logs]

\* the n handlers wired on the endpoint, one after the other
RECURSIVE OnRtpAll(_, _, _, _, _, _)
OnRtpAll(n, st, k, payload, pipe_ok, disk_ok) ==
  IF n = 0 THEN st
  ELSE OnRtpAll(n - 1, OnRtp(st, k, payload, pipe_ok, disk_ok),
                k, payload, pipe_ok, disk_ok)

\* data written n times over
RECURSIVE Repeat(_, _)
Repeat(data, n) == IF n = 0 THEN << >> ELSE data \o Repeat(data, n - 1)

\* the stack delivers a media packet on the open endpoint of key k: every
\* handler wired on the endpoint runs
RtpDelivered(k, payload, pipe_ok, disk_ok) ==
  /\ pc = "waiting"
  /\ k \in ep_open
  /\ hist.n_pkts < lim.pkts
  /\ LET st == OnRtpAll(rtp_handlers[k],
                        [a |-> audio, bytes |-> bytes_recv, logs |-> << >>],
                        k, payload, pipe_ok, disk_ok)
         wrote == k = "SBC" /\ Len(payload) > 1 /\ rtp_handlers[k] > 0
         failed == wrote /\ audio.active /\ audio.proc = "running" /\ ~pipe_ok
     IN  /\ audio' = st.a
         /\ bytes_recv' = st.bytes
         /\ Emit(st.logs)
         /\ hist' = [hist EXCEPT
              !.n_pkts = @ + 1,
              !.delivered = @ + Len(payload),
              !.playback_lost = @ \/ failed,
              !.dump_at_loss = IF ~hist.playback_lost /\ failed THEN audio.dump ELSE @,
              !.due = IF hist.playback_lost /\ wrote /\ audio.dump_file /\ disk_ok
                        THEN @ \o Repeat(Tail(payload), rtp_handlers[k])
                        ELSE IF failed THEN << >> ELSE @]
  /\ UNCHANGED << cli, lim, appVars, threadVars, sessVars, connVars, samplerVars >>

RtpPacket(k, payload, pipe_ok, disk_ok) ==
  /\ RtpDelivered(k, payload, pipe_ok, disk_ok)
  /\ UNCHANGED pf

\* the same delivery, the packet noted in pf as the last call followed
RtpTraced(k, payload, pipe_ok, disk_ok) ==
  /\ RtpDelivered(k, payload, pipe_ok, disk_ok)
  /\ pf' = [fn |-> "_on_rtp",
            in |-> [key |-> k, payload |-> payload, seq |-> hist.n_pkts + 1],
            out |-> "handled"]

\* an error of a handler that nothing catches unwinds into the session
RtpErrorPropagates == [pc |-> "closing", raised |-> TRUE]

\* `except Exception: pass` of _on_rtp
RtpErrorCaught == [pc |-> pc, raised |-> raised]

\* a media packet on which _on_rtp raises before it has written or counted
\* anything (pkt has no payload and bytes(pkt) raises): each handler wired
\* on the endpoint raises, and each passes in its except clause
RtpError(k) ==
  /\ pc = "waiting"
  /\ k \in ep_open
  /\ rtp_handlers[k] > 0
  /\ hist.n_pkts < lim.pkts
  /\ pc' = RtpErrorCaught.pc
  /\ raised' = RtpErrorCaught.raised
  /\ hist' = [hist EXCEPT !.n_pkts = @ + 1, !.n_err = @ + 1]
  /\ pf' = [fn |-> "_on_rtp",
            in |-> [key |-> k, payload |-> << >>, seq |-> hist.n_pkts + 1],
            out |-> "error"]
  /\ UNCHANGED << cli, lim, appVars, loop, stop_event, stop_cb, transport,
                  sessVars, connVars, relayVars, samplerVars, eventVars >>

\* the stream of the endpoint of key k is aborted: the stack tells the
\* endpoint's abort listeners, and the session has wired none (it listens
\* to open and close alone)
EndpointAbort(k) ==
  /\ pc = "waiting"
  /\ k \in ep_open
  /\ ep_open' = ep_open \ {k}
  /\ UNCHANGED << pf, cli, lim, appVars, threadVars, sessVars, fired, endpoints,
                  rtp_handlers, relayVars, samplerVars, eventVars, hist >>

\* the ffplay process exits on its own
ProcExit ==
  /\ audio.proc = "running"
  /\ audio' = [audio EXCEPT !.proc = "exited"]
  /\ hist' = [hist EXCEPT
       !.playback_lost = TRUE,
       !.dump_at_loss = IF hist.playback_lost THEN @ ELSE audio.dump,
       !.due = IF hist.playback_lost THEN @ ELSE << >>]
  /\ UNCHANGED << pf, cli, lim, appVars, threadVars, sessVars, connVars, bytes_recv,
                  samplerVars, eventVars >>

(***************************************************************************)
(* The sampler: one turn of bitrate_loop after its sleep.                  *)
(***************************************************************************)
\* kbps = delta * 8 / 1000, as the numerator over KBPS_DIV
KbpsBytes(delta) == delta

Kbps(delta) == delta * BITS_PER_BYTE

\* a sampler that keeps running whatever became of the loop and the task
SamplerRunsFree == bt_pc # "none"

\* bitrate_loop is a task of the worker's loop: it takes a turn while the
\* loop runs callbacks and the task has been neither cancelled nor left
SamplerCanRun == bt_pc = "sleeping" /\ pc = "waiting"

\* a sampler that reports every interval, empty or not
SamplerReportsAlways(delta) == TRUE

\* `if delta:` of bitrate_loop
SamplerReports(delta) == delta # 0

\* a sampler that forgets what it has read
BitrateTickKeepsPrev ==
  /\ SamplerCanRun
  /\ LET delta == bytes_recv - prev
     IN  /\ prev' = prev
         /\ IF delta # 0
              THEN Emit(<< Ev("BITRATE", "", "", Kbps(delta)) >>)
              ELSE UNCHANGED eventVars
  /\ UNCHANGED << pf, cli, lim, appVars, threadVars, sessVars, connVars, relayVars, bt_pc, hist >>

\* a sampler that counts each interval from zero
BitrateTickResets ==
  /\ SamplerCanRun
  /\ LET delta == bytes_recv - prev
     IN  /\ prev' = 0
         /\ bytes_recv' = 0
         /\ IF delta # 0
              THEN Emit(<< Ev("BITRATE", "", "", Kbps(delta)) >>)
              ELSE UNCHANGED eventVars
  /\ UNCHANGED << pf, cli, lim, appVars, threadVars, sessVars, connVars, audio, bt_pc, hist >>

BitrateTick ==
  /\ SamplerCanRun
  /\ LET delta == bytes_recv - prev
     IN  /\ prev' = bytes_recv
         /\ IF SamplerReports(delta)
              THEN Emit(<< Ev("BITRATE", "", "", Kbps(delta)) >>)
              ELSE UNCHANGED eventVars
  /\ bt_pc' = IF bt_pc # "sleeping" THEN bt_pc
              ELSE IF stop_event = "set" THEN "finished" ELSE "sleeping"
  /\ UNCHANGED << pf, cli, lim, appVars, threadVars, sessVars, connVars, relayVars, hist >>

(***************************************************************************)
(* The session specification.  The backup file is taken to open and to be  *)
(* written without error (open_ok, disk_ok); ffplay may fail to start, its *)
(* pipe may break and it may exit.  The peer configures an endpoint with   *)
(* the bytes it advertises, and the stack hands them to _on_open.          *)
(***************************************************************************)
RunStep ==
  \/ ThreadBegin
  \/ RunBegin
  \/ \E ok \in BOOLEAN : OpenTransport(ok)
  \/ \E ok \in BOOLEAN : PowerOn(ok)
  \/ RunResume
  \/ TransportClose
  \/ ThreadMainExit

WorkerStep == RunStep \/ StopCallback

StackStep ==
  \/ \E fails \in SUBSET Range(codec_keys) : OnAvdtp(fails)
  \/ \E k \in KeySet, popen_ok \in BOOLEAN : EndpointOpen(k, CODECS[k].info, "info", popen_ok, TRUE)
  \/ \E k \in KeySet : EndpointClose(k)
  \/ \E k \in KeySet, payload \in Payloads, pipe_ok \in BOOLEAN :
       RtpPacket(k, payload, pipe_ok, TRUE)
  \/ ProcExit
  \/ BitrateTick

AppStep ==
  \/ \E checked \in Selections, audio_on, has_ffplay \in BOOLEAN :
       AppStart(checked, audio_on, has_ffplay)
  \/ AppStop
  \/ AppPoll

Next == WorkerStep \/ StackStep \/ AppStep

Spec == Init /\ [][Next]_vars

\* the worker thread is scheduled and the calls _run awaits (open_transport,
\* power_on, the transport's close) return; the loop runs the callbacks
\* handed to it by call_soon_threadsafe
FairSpec == Spec /\ WF_vars(RunStep) /\ WF_vars(StopCallback)


(***************************************************************************)
(* The life of the application: sessions one after the other with the      *)
(* _do_reset thread each DONE starts, the worker of each session, the      *)
(* connection and the endpoint notifications; playback is left disabled    *)
(* and no media packet is followed.                                        *)
(***************************************************************************)
InitLife ==
  /\ AppInit
  /\ lim = [opens |-> LifeOpens, pkts |-> 0, sess |-> MaxRuns]

LifeAppStep ==
  \/ \E checked \in Selections : AppStart(checked, FALSE, FALSE)
  \/ AppStop
  \/ AppPoll
  \/ \E ok \in BOOLEAN : ResetFinish(ok)

LifeStackStep ==
  \/ \E fails \in SUBSET Range(codec_keys) : OnAvdtp(fails)
  \/ \E k \in KeySet : EndpointOpen(k, CODECS[k].info, "info", TRUE, TRUE)
  \/ \E k \in KeySet : EndpointClose(k)

NextLife == WorkerStep \/ LifeStackStep \/ LifeAppStep

SpecLife == InitLife /\ [][NextLife]_vars

(***************************************************************************)
(* codec_tester.py: main(), its menu loop, run_session and reset_hci.       *)
(*   cli.pc: "start", "menu", "opening", "powering", "waiting" (inside     *)
(*   asyncio.run), "reset" (inside reset_hci, cli.step commands done),     *)
(*   "exited" (main returned, or the KeyboardInterrupt handler of the      *)
(*   script ran), "crashed" (an exception left main: traceback, exit       *)
(*   status 1; cli.why names the call that raised)                         *)
(***************************************************************************)
RESET_COMMANDS == 4

\* run_session(keys, transport) is entered
CliRun(keys, direct) ==
  [cli EXCEPT !.pc = "opening", !.keys = keys, !.direct = direct,
              !.fired = FALSE, !.endpoints = << >>, !.step = 0,
              !.nruns = @ + 1]

\* main with a codec key as sys.argv[2]
CliMainKey(k) ==
  /\ cli.pc = "start"
  /\ cli' = CliRun(resolve(<< k >>), TRUE)
  /\ UNCHANGED << pf, sessionVars, lim >>

\* main with a menu number as sys.argv[2]
CliMainMenu(i) ==
  /\ cli.pc = "start"
  /\ cli' = CliRun(resolve(MENU_MAP[i]), TRUE)
  /\ UNCHANGED << pf, sessionVars, lim >>

\* main without sys.argv[2], or with one that names nothing: the menu
CliMainNoArg ==
  /\ cli.pc = "start"
  /\ cli' = [cli EXCEPT !.pc = "menu"]
  /\ UNCHANGED << pf, sessionVars, lim >>

\* pick_codecs returns the keys of a menu number
CliPickMenu(i) ==
  /\ cli.pc = "menu"
  /\ cli.nruns < lim.sess
  /\ cli' = CliRun(resolve(MENU_MAP[i]), FALSE)
  /\ UNCHANGED << pf, sessionVars, lim >>

\* pick_codecs returns the keys of a codec key typed in
CliPickKey(k) ==
  /\ cli.pc = "menu"
  /\ cli.nruns < lim.sess
  /\ cli' = CliRun(resolve(<< k >>), FALSE)
  /\ UNCHANGED << pf, sessionVars, lim >>

\* pick_codecs returns None (0, q, exit, quit, end of input): main breaks
CliPickExit ==
  /\ cli.pc = "menu"
  /\ cli' = [cli EXCEPT !.pc = "exited"]
  /\ UNCHANGED << pf, sessionVars, lim >>

\* an exception leaves run_session or reset_hci: run_session catches
\* KeyboardInterrupt alone, main catches nothing, the script catches
\* KeyboardInterrupt alone
CliUncaught(why) == [cli EXCEPT !.pc = "crashed", !.why = why]

\* open_transport returns or raises
CliOpenTransport(ok) ==
  /\ cli.pc = "opening"
  /\ cli' = IF ok THEN [cli EXCEPT !.pc = "powering"]
                  ELSE CliUncaught("open_transport")
  /\ UNCHANGED << pf, sessionVars, lim >>

\* power_on, set_discoverable, set_connectable return, or one raises
CliPowerOn(ok) ==
  /\ cli.pc = "powering"
  /\ cli' = IF ok THEN [cli EXCEPT !.pc = "waiting"]
                  ELSE CliUncaught("power_on")
  /\ UNCHANGED << pf, sessionVars, lim >>

\* on_connection of make_handler
CliOnConnection(fails) ==
  /\ cli.pc = "waiting"
  /\ IF cli.fired
       THEN fails = {} /\ cli' = cli
       ELSE cli' = [cli EXCEPT !.fired = TRUE,
                               !.endpoints = RegisterAll(cli.keys, fails)]
  /\ UNCHANGED << pf, sessionVars, lim >>

\* Ctrl+C during the session: run_session returns, main goes on to reset_hci
CliInterrupt ==
  /\ cli.pc \in {"opening", "powering", "waiting"}
  /\ cli' = [cli EXCEPT !.pc = "reset", !.step = 0]
  /\ UNCHANGED << pf, sessionVars, lim >>

\* one subprocess.run of reset_hci returns (whatever the command's exit
\* status), or raises: the command cannot be started, or TimeoutExpired
CliResetStep(ok) ==
  /\ cli.pc = "reset"
  /\ cli' = IF ~ok THEN CliUncaught("reset_hci")
            ELSE IF cli.step + 1 < RESET_COMMANDS THEN [cli EXCEPT !.step = @ + 1]
            ELSE [cli EXCEPT !.step = RESET_COMMANDS,
                             !.pc = IF cli.direct THEN "exited" ELSE "menu"]
  /\ UNCHANGED << pf, sessionVars, lim >>

\* Ctrl+C at the menu or during reset_hci: the script's handler, "Forced exit"
CliForcedExit ==
  /\ cli.pc \in {"menu", "reset"}
  /\ cli' = [cli EXCEPT !.pc = "exited", !.why = "KeyboardInterrupt"]
  /\ UNCHANGED << pf, sessionVars, lim >>

\* the registrations the stack fails: none, one key, or every key
FailSets(keys) == {{}} \cup {{k} : k \in Range(keys)} \cup {Range(keys)}

InitCli ==
  /\ AppInit
  /\ lim = [opens |-> 0, pkts |-> 0, sess |-> MaxCliRuns]

NextCli ==
  \/ \E k \in KeySet : CliMainKey(k)
  \/ \E i \in DOMAIN MENU_MAP : CliMainMenu(i)
  \/ CliMainNoArg
  \/ \E i \in DOMAIN MENU_MAP : CliPickMenu(i)
  \/ \E k \in KeySet : CliPickKey(k)
  \/ CliPickExit
  \/ \E ok \in BOOLEAN : CliOpenTransport(ok)
  \/ \E ok \in BOOLEAN : CliPowerOn(ok)
  \/ \E fails \in FailSets(cli.keys) : CliOnConnection(fails)
  \/ CliInterrupt
  \/ \E ok \in BOOLEAN : CliResetStep(ok)
  \/ CliForcedExit

SpecCli == InitCli /\ [][NextCli]_vars

(***************************************************************************)
(* The relay of a connected session: the state the session is in when      *)
(* on_avdtp has registered every endpoint and _run waits for the stop      *)
(* event, and from there the endpoint callbacks and the sampler alone,     *)
(* followed over more opens and packets than Spec follows.                 *)
(***************************************************************************)
Connected(checked, audio_on, has_ffplay) ==
  /\ running = TRUE
  /\ nsess = 1
  /\ pc = "waiting"
  /\ loop = "open"
  /\ stop_event = "clear"
  /\ stop_cb = FALSE
  /\ raised = FALSE
  /\ transport = "open"
  /\ codec_keys = get_keys(checked)
  /\ audio_enabled = audio_on
  /\ fired = TRUE
  /\ endpoints = RegisterAll(get_keys(checked), {})
  /\ ep_open = {}
  /\ rtp_handlers = [k \in KeySet |-> 0]
  /\ audio = NewAudio(has_ffplay)
  /\ bytes_recv = 0
  /\ bt_pc = "sleeping"
  /\ prev = 0
  /\ emitted = << Ev("DISCOVERABLE", "", "", 0), Log("", "[AVDTP] Connected") >>
                 \o RegisterLogs(get_keys(checked), {})
                 \o << Ev("CONNECTED", "", "", 0) >>
  /\ ev_q = emitted
  /\ handled = << >>
  /\ reset = 0
  /\ cli = CliStart
  /\ hist = [NoHist EXCEPT !.n_conn = 1, !.n_reg = 1]

InitRelay ==
  /\ pf = [fn |-> "none", in |-> << >>, out |-> << >>]
  /\ lim = [opens |-> MaxOpens, pkts |-> MaxPackets, sess |-> MaxSessions]
  /\ \E checked \in Selections, audio_on, has_ffplay \in BOOLEAN :
       /\ audio_on \/ ~has_ffplay
       /\ Connected(checked, audio_on, has_ffplay)

RelayStep ==
  \/ \E k \in KeySet, popen_ok \in BOOLEAN : EndpointOpen(k, CODECS[k].info, "info", popen_ok, TRUE)
  \/ \E k \in KeySet : EndpointClose(k)
  \/ \E k \in KeySet, payload \in Payloads, pipe_ok \in BOOLEAN :
       RtpPacket(k, payload, pipe_ok, TRUE)
  \/ ProcExit
  \/ BitrateTick

SpecRelay == InitRelay /\ [][RelayStep]_vars


(***************************************************************************)
(* The streams of a connected session with playback enabled and ffplay     *)
(* present: endpoints open, close and are aborted, media packets arrive    *)
(* (each noted in pf), handlers fail, ffplay and its pipe fail.            *)
(***************************************************************************)
InitStream ==
  /\ pf = [fn |-> "none", in |-> << >>, out |-> << >>]
  /\ lim = [opens |-> MaxOpens, pkts |-> MaxPackets, sess |-> MaxSessions]
  /\ \E checked \in Selections : Connected(checked, TRUE, TRUE)

NextStream ==
  \/ \E k \in KeySet, popen_ok \in BOOLEAN :
       EndpointOpen(k, CODECS[k].info, "info", popen_ok, TRUE)
  \/ \E k \in KeySet : EndpointClose(k)
  \/ \E k \in KeySet : EndpointAbort(k)
  \/ \E k \in KeySet, payload \in Payloads, pipe_ok \in BOOLEAN :
       RtpTraced(k, payload, pipe_ok, TRUE)
  \/ \E k \in KeySet : RtpError(k)
  \/ ProcExit

SpecStream == InitStream /\ [][NextStream]_vars

(***************************************************************************)
(* The selection: resolve and _get_keys applied to the requests a caller   *)
(* can make.                                                               *)
(***************************************************************************)
SeqsUpTo(S, n) == UNION { [1..m -> S] : m \in 0..n }

\* resolve([upper]) / resolve(list) on a key list
Resolve(req) ==
  /\ pf.fn = "none"
  /\ pf' = [fn |-> "resolve", in |-> req, out |-> resolve(req)]
  /\ UNCHANGED << sessionVars, cli, lim >>

\* resolve(MENU_MAP[raw]) of pick_codecs and main
ResolveMenu(i) ==
  /\ pf.fn = "none"
  /\ pf' = [fn |-> "resolve", in |-> MENU_MAP[i], out |-> resolve(MENU_MAP[i])]
  /\ UNCHANGED << sessionVars, cli, lim >>

\* App._get_keys with the checkboxes of `checked` ticked
GetKeys(checked) ==
  /\ pf.fn = "none"
  /\ pf' = [fn |-> "get_keys", in |-> CheckedInOrder(CatalogueKeys, checked),
            out |-> get_keys(checked)]
  /\ UNCHANGED << sessionVars, cli, lim >>

NextResolve ==
  \/ \E req \in SeqsUpTo(KeySet, MaxReq) : Resolve(req)
  \/ \E i \in DOMAIN MENU_MAP : ResolveMenu(i)
  \/ \E checked \in SUBSET KeySet : GetKeys(checked)

SpecResolve == Init /\ [][NextResolve]_vars

(***************************************************************************)
(* The opening of endpoints: a connected session with the aptX endpoints,  *)
(* the configurations a peer sets on them and the ways the stack presents  *)
(* the configuration to _on_open.                                          *)
(***************************************************************************)
OpenSelection == {"SBC", "AAC"} \cup AptxKeys

\* codec information bytes a peer may configure the endpoint of key k with:
\* the advertised ones, the advertised ids with another value, and, for a
\* vendor codec, the ids alone
Negotiated(k) ==
  LET info == CODECS[k].info
  IN  IF CODECS[k].mct = VENDOR_TYPE
        THEN { info, SubSeq(info, 1, 6) \o << 64 >>, SubSeq(info, 1, 6) }
        ELSE { info, << 33 >> \o Tail(info) }

Exposures == {"none", "no_info", "info"}

InitOpen ==
  /\ pf = [fn |-> "none", in |-> << >>, out |-> << >>]
  /\ lim = [opens |-> MaxOpens, pkts |-> 0, sess |-> MaxSessions]
  /\ Connected(OpenSelection, FALSE, FALSE)

NextOpen ==
  \/ \E k \in KeySet : \E neg \in Negotiated(k), exposed \in Exposures :
       EndpointOpen(k, neg, exposed, TRUE, TRUE)
  \/ \E k \in KeySet : EndpointClose(k)

SpecOpen == InitOpen /\ [][NextOpen]_vars

(***************************************************************************)
(* parse_codec_info applied to every key and to the payloads of up to      *)
(* MaxParseLen bytes over ParseBytes.                                      *)
(***************************************************************************)
\* bytes that set no bit, the bits 0x20 and 0x01, the bits 0x40 and 0x02,
\* and every bit
ParseBytes == {0, 33, 66, 255}

ParsePayloads == SeqsUpTo({0, 33}, MaxParseLen) \cup SeqsUpTo(ParseBytes, 4)
                   \cup { p \o << x, y >> : p \in [1..6 -> {255}], x, y \in ParseBytes }

ParseCall(k, b) ==
  /\ pf.fn = "none"
  /\ pf' = [fn |-> "parse_codec_info", in |-> [key |-> k, payload |-> b],
            out |-> parse_codec_info(k, b)]
  /\ UNCHANGED << sessionVars, cli, lim >>

NextParse == \E k \in KeySet, b \in ParsePayloads : ParseCall(k, b)

SpecParse == Init /\ [][NextParse]_vars

(***************************************************************************)
(* The selections of a session: either program is run, codec_tester.py     *)
(* with every argument and every menu entry, or the GUI with every         *)
(* combination of checkboxes, up to the registration of the endpoints.     *)
(***************************************************************************)
InitSelect ==
  /\ AppInit
  /\ lim = [opens |-> 0, pkts |-> 0, sess |-> MaxSessions]

\* the GUI from Start to the connection of a peer
GuiSelectStep ==
  \/ \E checked \in SUBSET KeySet : AppStart(checked, FALSE, FALSE)
  \/ ThreadBegin
  \/ RunBegin
  \/ OpenTransport(TRUE)
  \/ PowerOn(TRUE)
  \/ \E fails \in FailSets(codec_keys) : OnAvdtp(fails)

NextSelect ==
  \/ nsess = 0 /\ NextCli
  \/ cli.pc = "start" /\ GuiSelectStep

SpecSelect == InitSelect /\ [][NextSelect]_vars

(***************************************************************************)
(* The capability check applied to the proposals of a remote peer.         *)
(***************************************************************************)
VendorKeys == { k \in KeySet : CODECS[k].mct = VENDOR_TYPE }

\* vendor ids and codec ids a peer may put in a proposal: those of the two
\* catalogues
VendorIds == { VendorInfo(CODECS[k].info).vendor_id : k \in VendorKeys }

CodecIds ==
  { VendorInfo(CODECS[k].info).codec_id : k \in VendorKeys }
    \cup { VendorInfo(CLI_INFO[k]).codec_id : k \in VendorKeys }

\* what the stack decodes of the capability bytes `info` of key k: a
\* standard codec has no vendor id and no vendor codec id (-1)
Advertised(k, info) ==
  IF CODECS[k].mct = VENDOR_TYPE THEN VendorInfo(info)
  ELSE [vendor_id |-> -1, codec_id |-> -1, tail |-> info]

\* parameter tails: the advertised one, none, and one byte
Tails(k) ==
  { Advertised(k, CODECS[k].info).tail, << >> } \cup { << b >> : b \in 0..MaxTail }

Proposals(k) ==
  [ has_vendor : BOOLEAN, vendor_id : VendorIds, codec_id : CodecIds, tail : Tails(k) ]

\* VendorMediaCodecInformation.check_configuration as codec_tester.py
\* patches it, on the endpoint of vendor key k
MatchCli(k, prop) ==
  /\ pf.fn = "none"
  /\ pf' = [fn |-> "_check",
            in |-> [key |-> k, adv |-> Advertised(k, CLI_INFO[k]), prop |-> prop,
                    orig |-> FALSE],
            out |-> _check(Advertised(k, CLI_INFO[k]), prop)]
  /\ UNCHANGED << sessionVars, cli, lim >>

\* MediaCodecCapabilities.check_configuration as the GUI patches it, on the
\* endpoint of key k; orig is what the stack's own check answers
MatchGui(k, prop, orig) ==
  /\ pf.fn = "none"
  /\ pf' = [fn |-> "_permissive_check",
            in |-> [key |-> k, adv |-> Advertised(k, CODECS[k].info), prop |-> prop,
                    orig |-> orig],
            out |-> _permissive_check(CODECS[k].mct, orig)]
  /\ UNCHANGED << sessionVars, cli, lim >>

NextMatch ==
  \/ \E k \in VendorKeys : \E prop \in Proposals(k) : MatchCli(k, prop)
  \/ \E k \in KeySet : \E prop \in Proposals(k), orig \in BOOLEAN :
       MatchGui(k, prop, orig)

SpecMatch == Init /\ [][NextMatch]_vars

(***************************************************************************)
(* Claims.                                                                 *)
(***************************************************************************)
Checked == pf.fn \in {"_check", "_permissive_check"}

IdsMatch == /\ pf.in.prop.vendor_id = pf.in.adv.vendor_id
            /\ pf.in.prop.codec_id = pf.in.adv.codec_id

\* C1 as claimed: for a vendor-class descriptor the check accepts a proposal
\* exactly when its vendor id and vendor codec id equal the advertised ones
C1_AcceptsIffIdsMatch ==
  (Checked /\ pf.in.key \in VendorKeys /\ pf.in.prop.has_vendor)
    => (pf.out <=> IdsMatch)

\* C1 as amended: both variants accept a proposal whose ids equal the
\* advertised ones, whatever its tail; codec_tester.py rejects a proposal
\* carrying another vendor id or codec id (and accepts one that carries no
\* vendor id); the GUI accepts every proposal for a vendor-class descriptor
C1_VendorCheck ==
  (Checked /\ pf.in.key \in VendorKeys) =>
    /\ (pf.in.prop.has_vendor /\ IdsMatch) => pf.out
    /\ pf.fn = "_check" => (pf.out <=> (~pf.in.prop.has_vendor \/ IdsMatch))
    /\ pf.fn = "_permissive_check" => pf.out

C1_Witness ==
  /\ pf.fn = "_check"
  /\ pf.in.prop.has_vendor
  /\ IdsMatch
  /\ pf.in.prop.tail # pf.in.adv.tail
  /\ pf.out

\* C2: the resolved selection is the requested keys in their order followed
\* by the mandatory keys that were missing, SBC before AAC, so it holds both
C2_Resolve ==
  pf.fn \in {"resolve", "get_keys"} =>
    LET req == pf.in
        res == pf.out
        n == Len(req)
    IN  /\ Len(res) >= n
        /\ SubSeq(res, 1, n) = req
        /\ {"SBC", "AAC"} \subseteq Range(res)
        /\ SubSeq(res, n + 1, Len(res))
             = SelectSeq(<< "SBC", "AAC" >>, LAMBDA m : m \notin Range(req))
        /\ (req = << "APTX_HD" >> => res = << "APTX_HD", "SBC", "AAC" >>)

C2_Witness ==
  /\ pf.fn = "resolve"
  /\ pf.in = << "APTX_HD" >>
  /\ pf.out = << "APTX_HD", "SBC", "AAC" >>


\* C3: however many connection notifications the stack delivers, the
\* registration logic has run once: one CONNECTED event, and the endpoints
\* are those of the one pass over the session's keys
C3_RegistersOnce ==
  hist.n_conn >= 1 =>
    /\ fired
    /\ hist.n_reg = 1
    /\ Count(emitted, "CONNECTED") = 1
    /\ Len(endpoints) <= Len(codec_keys)
    /\ \A i, j \in DOMAIN endpoints : endpoints[i] = endpoints[j] => i = j

C3_Witness == hist.n_conn = 2 /\ Len(endpoints) = Len(codec_keys)

\* C4: stop() called twice on a session leads to its end, with exactly one
\* DONE event and exactly one teardown (the player released, the transport
\* not left open)
C4_StopTwiceOneDone ==
  (hist.n_stop = 2) ~>
    /\ pc = "done"
    /\ Count(emitted, "DONE") = 1
    /\ hist.n_teardown = 1
    /\ hist.n_tclose <= 1
    /\ audio.proc = "none" /\ ~audio.dump_file
    /\ transport # "open"

\* C5: every stop request leads to the end of the session
C5_StopLeadsToDone == (hist.n_stop > 0) ~> (pc = "done")

\* C6: the byte counter is the sum of the payload lengths of the packets
\* delivered on open endpoints
C6_EveryPacketCounted == bytes_recv = hist.delivered

\* C7: once playback is lost (a pipe write failed, or ffplay exited) while
\* the backup file is open, the backup holds what it held then followed by
\* every SBC payload handled since
C7_BackupIndependent ==
  (hist.playback_lost /\ audio.dump_file) =>
    audio.dump = hist.dump_at_loss \o hist.due

\* C8: a sampling tick sets prev to the counter and, when delta =
\* bytes_recv - prev is 0, emits nothing; a step that moves prev or emits a
\* BITRATE event has delta # 0, sets prev to the counter and emits exactly
\* one BITRATE event of delta * 8 / 1000 kbps; 10 packets of 1000 bytes
\* give 80 kbps
C8_Sampler ==
  [][ LET delta == bytes_recv - prev
      IN  /\ BitrateTick =>
                /\ prev' = bytes_recv
                /\ delta = 0 => emitted' = emitted
          /\ (prev' # prev \/ Count(emitted', "BITRATE") # Count(emitted, "BITRATE")) =>
                /\ delta # 0
                /\ prev' = bytes_recv
                /\ emitted' = Append(emitted, Ev("BITRATE", "", "", delta * 8))
                /\ KBPS_DIV = 1000
                /\ Kbps(10 * 1000) = 80 * KBPS_DIV ]_vars

C8_Witness ==
  /\ Count(emitted, "BITRATE") = 2
  /\ emitted[Len(emitted)].type = "BITRATE"
  /\ emitted[Len(emitted)].num = 16
  /\ prev = bytes_recv

\* C9: no BITRATE event follows the DONE event of the session
C9_NoBitrateAfterDone ==
  \A i, j \in DOMAIN emitted :
    (i < j /\ emitted[i].type = "DONE") => emitted[j].type # "BITRATE"

C9_Witness ==
  /\ pc = "done"
  /\ Count(emitted, "BITRATE") >= 1
  /\ emitted[Len(emitted)].type = "DONE"
  /\ bt_pc = "cancelled"

\* C10: when add_sink fails for some keys, the endpoints are those of all
\* the other keys, each failed key has its "skipped" log, and the session
\* goes on: it is discoverable and connected, nothing was raised, and it
\* leaves the wait only when the stop event is set
C10_FailedDescriptorSkipped ==
  (fired /\ hist.reg_failed # {}) =>
    /\ endpoints = SelectSeq(codec_keys, LAMBDA k : k \notin hist.reg_failed)
    /\ \A k \in hist.reg_failed :
         \E i \in DOMAIN emitted :
           emitted[i].type = "LOG" /\ emitted[i].key = k /\ emitted[i].text = "skipped"
    /\ Count(emitted, "DISCOVERABLE") = 1
    /\ Count(emitted, "CONNECTED") = 1
    /\ ~raised
    /\ pc \in {"waiting", "closing", "returned", "done"}
    /\ pc # "waiting" => stop_event = "set"

C10_Witness ==
  /\ fired
  /\ Cardinality(hist.reg_failed) = 1
  /\ Len(endpoints) = Len(codec_keys) - 1
  /\ pc = "waiting"
  /\ stop_event = "clear"


\* C11: when add_sink failed for every key of the session, the session is
\* ended with an error: nothing stays connected with zero endpoints
C11_ZeroEndpointsFatal ==
  (fired /\ endpoints = << >>) =>
    /\ Count(emitted, "CONNECTED") = 0
    /\ pc \in {"raised", "closing", "done"}
    /\ raised

C18_StandardUnchanged ==
  (pf.fn = "_permissive_check" /\ pf.in.key \in {"SBC", "AAC"}) =>
    pf.out = pf.in.orig

C18_Witness ==
  /\ pf.fn = "_permissive_check"
  /\ pf.in.key = "SBC"
  /\ ~pf.in.orig
  /\ ~pf.out

\* C19: within a session the byte counter never decreases, and a session
\* starts with the counter at 0
C19_CounterMonotonic ==
  [][ IF nsess' = nsess THEN bytes_recv' >= bytes_recv ELSE bytes_recv' = 0 ]_vars

C19_Witness ==
  /\ pc = "done"
  /\ stop_event = "set"
  /\ bytes_recv = 2
  /\ Count(emitted, "BITRATE") = 1
  /\ Count(emitted, "STREAM_CLOSED") = 1


\* the events of a sequence that a worker put (not the LOG of _do_reset)
WorkerEvents(q) == SelectSeq(q, LAMBDA e : e.text # "HCI ready")

\* C13: what App._handle was given, followed by what is still queued, is
\* what the session emitted, in the order of emission; DISCOVERABLE,
\* CONNECTED and DONE are emitted at most once, CONNECTED only after
\* DISCOVERABLE, STREAM_OPENED only after CONNECTED, nothing after DONE, and
\* a session that ended emitted DONE
C13_EventOrder ==
  /\ WorkerEvents(handled \o ev_q) = emitted
  /\ Count(emitted, "DISCOVERABLE") <= 1
  /\ Count(emitted, "CONNECTED") <= 1
  /\ Count(emitted, "DONE") <= 1
  /\ \A i \in DOMAIN emitted :
       /\ emitted[i].type = "CONNECTED" =>
            \E j \in 1..(i - 1) : emitted[j].type = "DISCOVERABLE"
       /\ emitted[i].type = "STREAM_OPENED" =>
            \E j \in 1..(i - 1) : emitted[j].type = "CONNECTED"
       /\ emitted[i].type = "DONE" => i = Len(emitted)
  /\ pc = "done" <=> Count(emitted, "DONE") = 1

C13_Witness ==
  /\ nsess = 2
  /\ ~running
  /\ Count(handled, "DONE") = 1
  /\ Count(handled, "STREAM_OPENED") = 1
  /\ handled[1].text = "HCI ready"
  /\ handled[2].type = "DISCOVERABLE"
  /\ WorkerEvents(handled) = emitted

\* C20: a session is started only when no session is live: no worker was
\* ever started, or the worker of the last session has emitted DONE and
\* the application has handled it
C20_OneLiveSession ==
  [][ nsess' # nsess =>
        /\ ~running
        /\ pc \in {"none", "done"}
        /\ nsess > 0 => Count(emitted, "DONE") = 1 /\ Count(ev_q, "DONE") = 0 ]_vars

C20_Witness ==
  /\ nsess = 2
  /\ running
  /\ pc = "waiting"
  /\ Count(emitted, "CONNECTED") = 1


\* C12 (codec_tester.py): a failure of open_transport does not end the
\* program
C12_OpenFailureReported == ~(cli.pc = "crashed" /\ cli.why = "open_transport")

\* C15 (codec_tester.py): a reset command that raises or times out does
\* not end the program, and the menu is offered again (or, with a codec on
\* the command line, main returns)
C15_ResetFailureNotFatal == ~(cli.pc = "crashed" /\ cli.why = "reset_hci")


\* the minimum payload lengths as the specification gives them
SpecMinLen(k) ==
  IF k = "SBC" THEN 4 ELSE IF k = "AAC" THEN 2 ELSE IF k = "LDAC" THEN 8 ELSE 7

\* C16: parse_codec_info returns a dict of fields for every key and
\* payload, without an exception even being raised inside it; for a payload
\* shorter than the codec's minimum the dict is empty, and for any other it
\* holds bit_depth and max_kbps
C16_ParseTotal ==
  pf.fn = "parse_codec_info" =>
    LET k == pf.in.key  b == pf.in.payload  r == pf.out.r
    IN  /\ ~pf.out.caught
        /\ DOMAIN r \subseteq {"sample_rate", "bit_depth", "max_kbps"}
        /\ Len(b) < SpecMinLen(k) => DOMAIN r = {}
        /\ Len(b) >= SpecMinLen(k) => {"bit_depth", "max_kbps"} \subseteq DOMAIN r

C16_Witness ==
  /\ pf.fn = "parse_codec_info"
  /\ pf.in.key = "LDAC"
  /\ Len(pf.in.payload) = 7
  /\ pf.in.payload[7] = 33
  /\ DOMAIN pf.out.r = {}


\* the STREAM_OPENED events of the session, in order
Opened == SelectSeq(emitted, LAMBDA e : e.type = "STREAM_OPENED")

\* C17: each STREAM_OPENED event carries the fields parsed from the bytes
\* the peer configured the endpoint with; for an aptX key and at least 7
\* bytes, bit_depth is 24 for APTX_HD and 16 for the others
C17_FieldsFromNegotiated ==
  \A i \in DOMAIN Opened :
    LET k == Opened[i].key  neg == hist.negotiated[i]  info == Opened[i].info
    IN  /\ info = parse_codec_info(k, neg).r
        /\ (k \in AptxKeys /\ Len(neg) >= 7) =>
             /\ "bit_depth" \in DOMAIN info
             /\ info["bit_depth"] = IF k = "APTX_HD" THEN 24 ELSE 16

\* no element of the sequence s occurs in it twice
Distinct(s) == \A i, j \in DOMAIN s : i # j => s[i] # s[j]

\* C21: in every session the codec keys of the registered endpoints are
\* pairwise distinct, whatever selection the menu, the presets, the direct
\* command-line argument or the GUI checkboxes produced
C21_EndpointKeysDistinct ==
  /\ Distinct(endpoints)
  /\ Distinct(cli.endpoints)
  /\ Distinct(codec_keys)
  /\ Distinct(cli.keys)

\* a GUI session with SBC and LDAC ticked (SBC is both selected and
\* mandatory) has registered its three endpoints
C21_Witness ==
  /\ fired
  /\ codec_keys = << "SBC", "LDAC", "AAC" >>
  /\ endpoints = codec_keys

\* C27: the radio reset of a finished session never runs while a session is
\* live: no session has opened the transport while a _do_reset thread
\* started by an earlier DONE has not finished
C27_ResetBeforeNextSession == ~(reset > 0 /\ transport = "open")

\* C24: bitrate events are emitted only while the session is connected or
\* streaming: every BITRATE event of a session comes after the session's
\* CONNECTED event and before its DONE event
C24_BitrateWhileConnected ==
  \A i \in DOMAIN emitted :
    emitted[i].type = "BITRATE" =>
      /\ \E j \in 1..(i - 1) : emitted[j].type = "CONNECTED"
      /\ \A j \in 1..(i - 1) : emitted[j].type # "DONE"

\* a session that reported a bitrate has ended
C24_Witness ==
  /\ Count(emitted, "BITRATE") > 0
  /\ Count(emitted, "CONNECTED") = 1
  /\ emitted[Len(emitted)].type = "DONE"

\* the sum of the num fields of the BITRATE events of q
RECURSIVE BitrateSum(_)
BitrateSum(q) ==
  IF q = << >> THEN 0
  ELSE (IF Head(q).type = "BITRATE" THEN Head(q).num ELSE 0) + BitrateSum(Tail(q))

\* C29: the sampler neither loses nor double-reports bytes between ticks:
\* after every sampling tick the byte deltas of the BITRATE events emitted
\* so far in the session (their kbps numerators, delta * 8) add up to the
\* counter value read at that tick (prev)
C29_DeltasAddUp == BitrateSum(emitted) = prev * BITS_PER_BYTE

\* two ticks have reported, and the second one read the counter as it is
C29_Witness ==
  /\ Count(emitted, "BITRATE") = 2
  /\ prev = bytes_recv
  /\ prev > 0

\* the step is the delivery of a media packet / an endpoint-open notification
PacketStep == hist'.n_pkts # hist.n_pkts
OpenStep == hist'.n_opens # hist.n_opens

\* C22: only packets of the SBC endpoint are forwarded to the playback and
\* backup sinks, with exactly the first payload byte stripped and only when
\* the payload is longer than one byte; packets of any other codec are
\* written to neither sink, and starting the relay for an endpoint that is
\* not the SBC one leaves the player as it was
C22_OnlySbcForwarded ==
  [][ /\ PacketStep =>
           LET k == pf'.in.key
               p == pf'.in.payload
           IN  IF k = "SBC" /\ Len(p) > 1
                 THEN /\ \E m \in 0..rtp_handlers[k] :
                           audio'.played = audio.played \o Repeat(Tail(p), m)
                      /\ \E m \in 0..rtp_handlers[k] :
                           audio'.dump = audio.dump \o Repeat(Tail(p), m)
                 ELSE /\ audio'.played = audio.played
                      /\ audio'.dump = audio.dump
      /\ (OpenStep /\ emitted'[Len(emitted) + 1].key # "SBC") => audio' = audio
      /\ (~PacketStep /\ ~OpenStep) =>
           /\ audio'.played = audio.played
           /\ audio'.dump = audio.dump
    ]_vars

\* an SBC packet was forwarded without its first byte, and the AAC packet
\* that followed it, with the player still active, was not
C22_Witness ==
  /\ pf.fn = "_on_rtp"
  /\ pf.in.seq = 2
  /\ pf.in.key = "AAC"
  /\ pf.in.payload = << 9, 7 >>
  /\ audio.active
  /\ audio.played = << 7 >>
  /\ audio.dump = << 7 >>

\* C23: an error raised while an endpoint's media packet is handled is
\* caught and does not tear the session down: the worker and its loop, the
\* connection and the endpoints stay as they are, no DONE is emitted, and a
\* packet that is handled afterwards is counted by every handler
C23_PacketErrorContained ==
  [][ PacketStep =>
        /\ threadVars' = threadVars
        /\ running' = running
        /\ connVars' = connVars
        /\ Count(emitted', "DONE") = 0
        /\ pf'.out = "handled" =>
             bytes_recv' = bytes_recv
                             + rtp_handlers[pf'.in.key] * Len(pf'.in.payload)
    ]_vars

\* an earlier packet raised in the handler, and a later packet was handled
\* and counted while the session still waits
C23_Witness ==
  /\ pf.fn = "_on_rtp"
  /\ pf.out = "handled"
  /\ pf.in.seq > 1
  /\ hist.n_err > 0
  /\ bytes_recv > 0
  /\ pc = "waiting"

\* C25: after any sequence of endpoint open and close events, the endpoint
\* opened, closed and opened again included, each media packet received
\* increases the cumulative byte counter by exactly its payload length
C25_CountedOnce ==
  [][ (PacketStep /\ pf'.out = "handled") =>
        bytes_recv' = bytes_recv + Len(pf'.in.payload)
    ]_vars

\* the step is the close notification of an endpoint other than the SBC one
OtherCloseStep ==
  /\ Len(emitted') > Len(emitted)
  /\ emitted'[Len(emitted) + 1].type = "STREAM_CLOSED"
  /\ emitted'[Len(emitted) + 1].key # "SBC"

\* C26: endpoints open and close independently: the close of an endpoint
\* does not stop the live playback or the backup of the SBC endpoint, which
\* is still open
C26_CloseLeavesOthers ==
  [][ (OtherCloseStep /\ "SBC" \in ep_open') =>
        /\ audio'.active = audio.active
        /\ audio'.proc = audio.proc
        /\ audio'.dump_file = audio.dump_file
    ]_vars

IsPrefix(a, b) == Len(a) <= Len(b) /\ SubSeq(b, 1, Len(a)) = a

\* C28: at most one playback process and one backup file handle are held at
\* any time: starting the relay again never leaves an earlier process or
\* file handle unreleased, and never truncates the backup already written
\* in the session
C28_OnePlayerOneFile ==
  [][ /\ audio'.unreleased = 0
      /\ OpenStep => IsPrefix(audio.dump, audio'.dump)
    ]_vars

====
